---------------------------- MODULE Spec2Model ----------------------------
(***************************************************************************)
(* kodi_panel_display.py: the polling loop of main(), the touch callback,  *)
(* the render pass update_display() with its screen / display-mode state,  *)
(* the artwork resolver get_artwork() and ADisplay.next().                 *)
(*                                                                         *)
(* Two threads run the code: "main" (main(), the polling loop) and "touch" *)
(* (the RPi.GPIO callback thread, which runs touch_callback once per       *)
(* press, one callback at a time).  Each action is one step of one thread; *)
(* steps are cut where the code reads or writes state that the other       *)
(* thread can touch without holding the lock (screen_press, kodi_active,   *)
(* the backlight).                                                         *)
(***************************************************************************)
EXTENDS Integers, Sequences, FiniteSets, TLC

\* ------------------------------------------------------------------ bounds
\* The clock may advance at most MaxTicks times.
MaxTicks == 3
\* ADisplay.next is checked on every list of at most MaxLayouts variants.
MaxLayouts == 3

\* ------------------------------------------------------- program constants
screen_wake == 25
DEMO_MODE == FALSE
default_thumb == "default_thumb.png"
default_airplay == "default_airplay.png"

\* One second, about one poll cycle (time.sleep(0.91) plus the pass itself).
PollTick == 1
\* The amounts by which the clock advances in one Tick.
TickSteps == {PollTick, screen_wake}

Threads == {"main", "touch"}

\* Python's None for a path or a last-modified token, and for an image.
None == "None"
NoImage == [src |-> "None", id |-> 0]

\* The cover locators XBMC.GetInfoLabels can report in MusicPlayer.Cover.
LibraryCover == "image://a"
HttpCover == "http://b"
AirtunesCover == "special://temp/airtunes_album_thumb.jpg"
Covers == {"", "DefaultAlbumCover.png", LibraryCover, HttpCover, AirtunesCover}

\* The last-modified tokens Files.GetFileDetails can report (None: the reply
\* carries no lastmodified).
Tokens == {None, "t1", "t2"}

\* Marker of "no resolution since the caches were last cleared".
NoCover == "<none>"

\* _airtunes_re.match(cover)
airtunes_re_match(cover) == cover = AirtunesCover
\* _airtunes_re.match(cover).group(1) appended to "/storage/.kodi/temp/"
airplay_thumb(cover) == "/storage/.kodi/temp/airtunes_album_thumb.jpg"
\* image_path.startswith("http://")
startswith_http(path) == path = HttpCover

\* The configured audio layouts (ALAYOUT_NAMES) of the polling model and of
\* the artwork model, and which layouts have a "thumb" region (A_LAYOUT).
MainLayouts == <<1, 2>>
ArtLayouts == <<1, 2, 3>>
HasThumb(mode) == mode # 2

VARIABLES
    pc,               \* [Threads -> position in the code]
    exc,              \* [Threads -> exception in flight: "none", "conn", "other"]
    lock,             \* "free" or the thread that acquired it
    kodi_active,
    screen_press,
    screen_active,
    screen_offtime,
    now,              \* datetime.now(), in seconds
    ticks,            \* how many times the clock advanced
    members,          \* list(ADisplay)
    audio_dmode,
    _last_image_path,
    _last_thumb,
    _last_image_time,
    USE_BACKLIGHT,    \* config.settings["USE_BACKLIGHT"]
    _local_kodi,      \* base_url starts with http(s)://localhost:
    backlight,        \* the device's backlight: TRUE is on
    image,            \* the shared frame buffer: what is drawn in it
    shown,            \* the frame last handed to device.display
    response,         \* [Threads -> update_display's local: the active player]
    track_info,       \* [Threads -> update_display's local: MusicPlayer.Cover]
    prog,             \* [Threads -> update_display's local: the progress]
    tpress,           \* touch_callback: the value of kodi_active read at line 812,
                      \* until the callback returns
    pass_press,       \* [Threads -> the press this pass consumed: "no", "idle", "audio"]
    pass_expired,     \* [Threads -> the wake time expired in this pass]
    art_log,          \* what the last get_artwork call did: fetch, open, rpc
    prev_cover,       \* the cover of the last resolution since the last clear
    visited,          \* the variants successive next() calls returned
    start,            \* the variant the next() calls started from
    last_trunc,       \* the list of recently truncated strings, newest first
    call,             \* the last truncate_text call: its arguments and effects
    seen,             \* how many lines of the playlist have been drawn
    calls,            \* how many truncate_text calls have been made
    bar,              \* the progress_bar call made for the frame, or NoBar
    prog_reply,       \* what Player.GetProperties replied in the pass, if it did
    consumed,         \* how many passes consumed the press made last, until
                      \* screen_press is cleared behind it
    fields            \* the last run of the text-field loop of audio_screens:
                      \* its info, its txt_field and the strings it drew

vars == <<pc, exc, lock, kodi_active, screen_press, screen_active, screen_offtime,
          now, ticks, members, audio_dmode, _last_image_path, _last_thumb,
          _last_image_time, USE_BACKLIGHT, _local_kodi, backlight, image, shown,
          response, track_info, prog, tpress, pass_press, pass_expired,
          art_log, prev_cover, visited, start, last_trunc, call, seen, calls,
          bar, prog_reply, consumed, fields>>

\* ---------------------------------------------------------------- helpers

\* members.index(x)
Index(seq, x) == CHOOSE i \in 1..Len(seq) : seq[i] = x

\* ADisplay.next(): the member after self, the first one after the last.
next_wrong(mode) ==
    LET index == Index(members, mode) + 1
    IN  IF index > Len(members) THEN members[Len(members)] ELSE members[index]

next(mode) ==
    LET index == Index(members, mode) + 1
    IN  IF index > Len(members) THEN members[1] ELSE members[index]

\* screen_on(): the backlight after the call (USE_PWM is False: the call is
\* device.backlight(True)).
screen_on_skipped(b) == b

screen_on(b) == IF ~USE_BACKLIGHT \/ DEMO_MODE THEN b ELSE TRUE

\* screen_off(): the backlight after the call.
screen_off_skipped(b) == b

screen_off(b) == IF ~USE_BACKLIGHT \/ DEMO_MODE THEN b ELSE FALSE

\* The identity of an image object created while prev_image is still alive:
\* it differs from prev_image's.
NewId(prev_image) == IF prev_image = NoImage THEN 0 ELSE 1 - prev_image.id
NewImage(src, prev_image) == [src |-> src, id |-> NewId(prev_image)]


\* ------------------------------------------------------------ get_artwork

\* What the network and the disk answer during one get_artwork call:
\*   prep     Files.PrepareDownload: a reply with result.details.path ("ok"), a
\*            reply whose result has no details/path ("nopath"), a reply that is
\*            no JSON or has no result ("bad"), a connection error ("conn");
\*   get      requests.get of the image: status 200, another status, or a
\*            connection error;
\*   decode   whether Image.open accepts the fetched bytes;
\*   details  Files.GetFileDetails: the lastmodified token (None when the reply
\*            has none), a reply that is no JSON ("bad"), a connection error;
\*   isfile   os.path.isfile(airplay_thumb).
ArtEnvs ==
    [prep : {"ok", "nopath", "bad", "conn"},
     get : {"200", "404", "conn"},
     decode : BOOLEAN,
     details : Tokens \cup {"bad", "conn"},
     isfile : BOOLEAN]

\* get_artwork's locals and the globals it writes, at entry.
ArtEntry(prev_image, lip, lit) ==
    [exc |-> "none", image_set |-> FALSE, resize_needed |-> FALSE,
     cover |-> NoImage, prev_image |-> prev_image,
     path |-> lip, time |-> lit,
     fetch |-> FALSE, open |-> FALSE, rpc |-> FALSE, fail |-> "none"]

\* The Files.PrepareDownload call and the use of its reply (lines 366-377 and
\* 424-435): without details/path, image_url stays unbound and requests.get's
\* argument raises UnboundLocalError.
PrepareDownload(s, env) ==
    [s EXCEPT !.rpc = TRUE,
              !.exc = CASE env.prep = "conn" -> "conn"
                        [] env.prep = "bad" -> "other"
                        [] env.prep = "nopath" -> "other"
                        [] OTHER -> "none",
              !.fail = IF env.prep = "nopath" THEN "nopath" ELSE "none"]

\* requests.get and the decoding of what it returned (lines 380-392 and
\* 438-451); new_time is the value _last_image_time has after a success.
FetchDecode(s, src, prev0, new_time, env) ==
    IF env.get = "conn"
    THEN [s EXCEPT !.fetch = TRUE, !.exc = "conn"]
    ELSE IF env.get = "200"
    THEN IF env.decode
         THEN [s EXCEPT !.fetch = TRUE, !.open = TRUE,
                        !.cover = NewImage(src, prev0),
                        !.image_set = TRUE, !.resize_needed = TRUE,
                        !.time = new_time]
         ELSE [s EXCEPT !.fetch = TRUE, !.open = TRUE,
                        !.cover = NewImage(default_thumb, prev0),
                        !.prev_image = NewImage(default_thumb, prev0),
                        !.image_set = TRUE, !.resize_needed = FALSE,
                        !.fail = "decode"]
    ELSE [s EXCEPT !.fetch = TRUE, !.fail = "status"]

\* Lines 351-392: a library or remote cover.
ArtLibrary(s, cover, prev0, env) ==
    IF cover # "" /\ cover # "DefaultAlbumCover.png" /\ ~airtunes_re_match(cover)
    THEN IF cover = s.path /\ s.prev_image # NoImage
         THEN [s EXCEPT !.image_set = TRUE]
         ELSE LET s1 == [s EXCEPT !.path = cover]
                  s2 == IF startswith_http(cover) THEN s1 ELSE PrepareDownload(s1, env)
              IN  IF s2.exc # "none" THEN s2
                  ELSE FetchDecode(s2, cover, prev0, s2.time, env)
    ELSE s

\* Lines 401-453: an Airplay cover of a player on another host.
ArtAirplay(s, cover, prev0, env) ==
    IF s.exc = "none" /\ ~s.image_set /\ airtunes_re_match(cover) /\ ~_local_kodi
    THEN IF env.details \in {"conn", "bad"}
         THEN [s EXCEPT !.rpc = TRUE,
                        !.exc = IF env.details = "conn" THEN "conn" ELSE "other"]
         ELSE LET new_image_time == env.details
                  s1 == [s EXCEPT !.rpc = TRUE]
              IN  IF new_image_time # None /\ new_image_time # s1.time
                  THEN LET s2 == PrepareDownload(s1, env)
                       IN  IF s2.exc # "none" THEN s2
                           ELSE FetchDecode(s2, cover, prev0, new_image_time, env)
                  ELSE [s1 EXCEPT !.image_set = TRUE]
    ELSE s

\* Lines 459-474: the local Airplay file or a default image.
ArtFallback(s, cover, prev0, env) ==
    IF s.exc = "none" /\ ~s.image_set
    THEN LET path == IF airtunes_re_match(cover)
                     THEN IF env.isfile THEN airplay_thumb(cover) ELSE default_airplay
                     ELSE default_thumb
             img == NewImage(path, prev0)
         IN  [s EXCEPT !.resize_needed = airtunes_re_match(cover) /\ env.isfile,
                       !.path = path, !.open = TRUE,
                       !.cover = img, !.prev_image = img, !.image_set = TRUE]
    ELSE s

\* Lines 477-486: the resizing and the value returned.
ArtReturn(s) ==
    IF s.exc = "none" /\ s.image_set /\ s.resize_needed
    THEN [s EXCEPT !.prev_image = s.cover]
    ELSE s

\* get_artwork(info, prev_image, thumb_size) with the globals _last_image_path
\* = lip and _last_image_time = lit: the exception raised (exc), the image
\* returned (prev_image), the globals afterwards (path, time), and whether the
\* call fetched an image, opened one, or sent an RPC, and how the retrieval
\* of the image failed (fail: "nopath" for a Files.PrepareDownload reply
\* without details/path, "status" for a status other than 200, "decode" for
\* bytes Image.open rejects).
get_artwork(cover, prev_image, lip, lit, env) ==
    ArtReturn(
      ArtFallback(
        ArtAirplay(
          ArtLibrary(ArtEntry(prev_image, lip, lit), cover, prev_image, env),
          cover, prev_image, env),
        cover, prev_image, env))


\* ----------------------------------------------------------- truncate_text

\* How many truncate_text calls a behaviour of the truncation model makes.
MaxCalls == 11

\* frame_size (line 86): DISPLAY_WIDTH and DISPLAY_HEIGHT of a 320x240 panel.
frame_size == <<320, 240>>

\* text[0:59] (lines 264 and 299) and last_trunc[:9] (line 306).
KeyLen == 59
CacheLen == 9

\* A text is a sequence of characters; "i" is a narrow character, "W" a wide
\* one, and Ellipsis is "…" (line 296).
Ellipsis == "..."
Fonts == {"small", "large"}

\* pil_draw.textsize(text, font)[0]: the widths of the characters of the text
\* in the font, added up.
CharWidth(c, font) ==
    LET w == CASE c = "i" -> 2
               [] c = "W" -> 6
               [] OTHER -> 5
    IN  IF font = "large" THEN 2 * w ELSE w

Count(text, c) == Cardinality({i \in 1..Len(text) : text[i] = c})

textsize(text, font) ==
    LET narrow == Count(text, "i")
        wide == Count(text, "W")
    IN  narrow * CharWidth("i", font) + wide * CharWidth("W", font)
          + (Len(text) - narrow - wide) * CharWidth(Ellipsis, font)

\* text[0:n]
Slice(text, n) == SubSeq(text, 1, IF Len(text) < n THEN Len(text) ELSE n)

\* Line 281.
avail_width == frame_size[1] - 20

\* Lines 267-268: the entry is the one of this string and this font.
CacheMatch_never(entry, new_text, font) == FALSE

CacheMatch(entry, new_text, font) ==
    new_text = entry.str /\ font = entry.font

\* Lines 266-274: the index of the first entry that matches, 0 when none does.
CacheIndex(cache, new_text, font) ==
    IF \E i \in 1..Len(cache) : CacheMatch(cache[i], new_text, font)
    THEN CHOOSE i \in 1..Len(cache) :
            /\ CacheMatch(cache[i], new_text, font)
            /\ \A j \in 1..(i - 1) : ~CacheMatch(cache[j], new_text, font)
    ELSE 0

\* Lines 289-292: the loop that drops the last character while the text
\* reaches past avail_width; measures counts the textsize calls.  (With
\* xy[0] > avail_width the loop of the code does not end; no layout of the
\* model puts a field there.)
RECURSIVE Shrink(_, _, _, _, _)
Shrink(new_text, truncating, measures, xy, font) ==
    IF xy[1] + textsize(new_text, font) > avail_width
    THEN Shrink(SubSeq(new_text, 1, Len(new_text) - 1), 1, measures + 1, xy, font)
    ELSE [text |-> new_text, truncating |-> truncating, measures |-> measures]

\* Lines 304-306: last_trunc.insert(0, new_result); last_trunc = last_trunc[:9]
CacheInsert_back(cache, new_result) == Slice(Append(cache, new_result), CacheLen)

CacheInsert(cache, new_result) == Slice(<<new_result>> \o cache, CacheLen)

\* truncate_text(pil_draw, xy, text, fill, font) with last_trunc = cache: the
\* exception raised (exc), the string drawn (drawn), last_trunc afterwards,
\* and the number of textsize calls made.  The quotient of line 283 is
\* computed exactly.
truncate_text(xy, text, font, cache) ==
    LET new_text == Slice(text, KeyLen)
        index == CacheIndex(cache, new_text, font)
        t_width == textsize(new_text, font)
    IN  IF index # 0
        THEN [exc |-> "none", drawn |-> cache[index].short_str,
              last_trunc |-> cache, measures |-> 0]
        ELSE IF t_width = 0
        THEN [exc |-> "other", drawn |-> <<>>, last_trunc |-> cache, measures |-> 1]
        ELSE LET num_chars == ((avail_width + 20) * t_width) \div Len(new_text)
                 cut == Shrink(Slice(new_text, num_chars), 0, 2, xy, font)
                 disp_text == IF cut.truncating = 1
                              THEN Append(cut.text, Ellipsis) ELSE cut.text
                 new_result == [str |-> Slice(text, KeyLen), short_str |-> disp_text,
                                truncating |-> cut.truncating, font |-> font]
             IN  [exc |-> "none", drawn |-> disp_text,
                  last_trunc |-> CacheInsert(cache, new_result),
                  measures |-> cut.measures]

\* No truncate_text call has been made.
NoCall == [text |-> <<>>, font |-> "none", xy |-> <<0, 0>>, drawn |-> <<>>,
           measures |-> 0]

\* c repeated n times.
Repeat(c, n) == [i \in 1..n |-> c]

\* The lines the truncation model draws: texts of at most and of more than
\* 59 characters, narrower and wider than the panel, in two fonts.
\* audio_screens passes no empty text (lines 621-626 and 642-643).
Playlist ==
    <<[text |-> Repeat("i", 60), font |-> "small"],
      [text |-> Repeat("W", 30), font |-> "small"],
      [text |-> Repeat("W", 30), font |-> "large"],
      [text |-> Repeat("W", 70), font |-> "small"],
      [text |-> Repeat("W", 70), font |-> "large"],
      [text |-> Repeat("i", 20) \o Repeat("W", 45), font |-> "small"],
      [text |-> Repeat("i", 20) \o Repeat("W", 45), font |-> "large"],
      [text |-> Repeat("W", 3), font |-> "small"],
      [text |-> Repeat("W", 3), font |-> "large"],
      [text |-> Repeat("i", 60), font |-> "large"],
      [text |-> <<"i">>, font |-> "small"]>>

\* The positions (posx, posy) of the text fields of the layouts.
Positions == {<<0, 0>>, <<145, 0>>}

\* ------------------------------------------------------------ progress_bar

\* Fractions and coordinates are counted in thousandths: the least fraction
\* 0.01 (line 316), the full bar 1 (line 318), and the progress -1 of a reply
\* without a percentage (line 798).
MinFraction == 10
FullFraction == 1000
NoProgress == -1000

\* float(percentage) / 100.0 (line 796).
Fraction(percentage) == percentage * 10

\* n pixels.
Px(n) == n * 1000

\* Lines 315-318.
Clamp_none(progress) == progress

Clamp(progress) ==
    LET p == IF progress <= 0 THEN MinFraction ELSE progress
    IN  IF p > FullFraction THEN FullFraction ELSE p

\* progress_bar(pil_draw, bgcolor, color, x, y, w, h, progress, vertical):
\* its arguments, the rectangle of the background (bg) and the rectangle
\* filled (fill), each as (x0, y0, x1, y1).
progress_bar(x, y, w, h, progress, vertical) ==
    LET p == Clamp(progress)
        dh == h * p
        dw == w * p
    IN  [x |-> x, y |-> y, w |-> w, h |-> h, progress |-> progress,
         vertical |-> vertical,
         bg |-> <<Px(x), Px(y), Px(x + w), Px(y + h)>>,
         fill |-> IF vertical
                  THEN <<Px(x), Px(y + h) - dh, Px(x + w), Px(y + h)>>
                  ELSE <<Px(x), Px(y), Px(x) + dw, Px(y + h)>>]

\* No progress_bar call has been made for the frame.
NoBar == [x |-> 0, y |-> 0, w |-> 0, h |-> 0, progress |-> 0, vertical |-> FALSE,
          bg |-> <<0, 0, 0, 0>>, fill |-> <<0, 0, 0, 0>>]

\* Which layouts have a "prog" region, and the region (A_LAYOUT): layout 2
\* has a vertical bar, the others a horizontal one in two lengths.
HasProg(mode) == mode # 3
ProgLayout(mode) ==
    IF mode = 2
    THEN [posx |-> 310, posy |-> 10, len |-> 6, height |-> 220, vertical |-> TRUE]
    ELSE [posx |-> 150, posy |-> 7, short_len |-> 104, long_len |-> 164,
          height |-> 8, vertical |-> FALSE]

\* Line 579, the first half: the progress is known.
ProgKnown_always(progress) == TRUE

ProgKnown(progress) == progress # NoProgress

\* Lines 578-596: the progress bars audio_screens may draw, NoBar for none;
\* which of the two lengths a horizontal bar gets depends on the format of
\* MusicPlayer.Time.
ProgBars(mode, progress) ==
    IF ProgKnown(progress) /\ HasProg(mode)
    THEN LET layout == ProgLayout(mode)
         IN  IF layout.vertical
             THEN {progress_bar(layout.posx, layout.posy, layout.len,
                                layout.height, progress, TRUE)}
             ELSE {progress_bar(layout.posx, layout.posy, len,
                                layout.height, progress, FALSE) :
                      len \in {layout.long_len, layout.short_len}}
    ELSE {NoBar}

\* ------------------------------------------------------------- text fields

\* codec_name (lines 54-71): the display label of each codec id.
codec_name ==
    ("ac3" :> <<"D", "D">>) @@ ("eac3" :> <<"D", "D">>)
      @@ ("dtshd_ma" :> <<"D", "T", "S", "-", "M", "A">>)
      @@ ("dca" :> <<"D", "T", "S">>)
      @@ ("truehd" :> <<"D", "D", "-", "H", "D">>)
      @@ ("wmapro" :> <<"W", "M", "A">>)
      @@ ("mp3float" :> <<"M", "P", "3">>)
      @@ ("flac" :> <<"F", "L", "A", "C">>)
      @@ ("alac" :> <<"A", "L", "A", "C">>)
      @@ ("vorbis" :> <<"O", "g", "g", "V">>)
      @@ ("aac" :> <<"A", "A", "C">>)
      @@ ("pcm_s16be" :> <<"P", "C", "M">>)
      @@ ("mp2" :> <<"M", "P", "2">>)
      @@ ("pcm_u8" :> <<"P", "C", "M">>)
      @@ ("BXA" :> <<"A", "i", "r", "P", "l", "a", "y">>)
      @@ ("dsd_lsbf_planar" :> <<"D", "S", "D">>)

\* The info labels the text fields read (lines 765-775).
Artist == "MusicPlayer.Artist"
Composer == "MusicPlayer.Property(Role.Composer)"
Codec == "MusicPlayer.Codec"
Title == "MusicPlayer.Title"

\* One draw.text call of the loop: the field it is for, whether it draws the
\* field's label or its value, the string the field handed over (text), the
\* string that reached the frame (drawn) and where.
TextDraw(f, part, text, drawn, xy, font) ==
    [name |-> f.name, part |-> part, text |-> text, drawn |-> drawn,
     xy |-> xy, font |-> font]

\* Lines 609-612 and 644-647: the label of a field that has one.
LabelDraws(f) ==
    IF f.haslabel
    THEN <<TextDraw(f, "label", f.label, f.label, f.lxy, f.lfont)>>
    ELSE <<>>

\* Nothing is drawn for the field.
NoDraws(cache) == [exc |-> "none", draws |-> <<>>, cache |-> cache]

\* Lines 628-632 and 650-654: what a truncate_text call that returned r leaves
\* of the field's value.
Truncated(f, text, r) ==
    [exc |-> r.exc,
     draws |-> IF r.exc = "none"
               THEN <<TextDraw(f, "value", text, r.drawn, f.xy, f.font)>>
               ELSE <<>>,
     cache |-> r.last_trunc]

\* Lines 627-637 and 649-659: the value of a field, through truncate_text
\* when the field has "trunc", with draw.text otherwise.
ValueDraws(f, text, cache) ==
    IF f.trunc
    THEN Truncated(f, text, truncate_text(f.xy, text, f.font, cache))
    ELSE [exc |-> "none",
          draws |-> <<TextDraw(f, "value", text, text, f.xy, f.font)>>,
          cache |-> cache]

\* Line 607: the codec id is one of the table.
CodecKnown_any(id) == TRUE

CodecKnown(id) == id \in DOMAIN codec_name

\* Lines 606-616: the codec field; codec_name[id] at line 614 is a KeyError
\* for an id that is not in the table.
codec_field(f, info, cache) ==
    IF CodecKnown(info[Codec])
    THEN IF info[Codec] \in DOMAIN codec_name
         THEN [exc |-> "none",
               draws |-> LabelDraws(f)
                           \o <<TextDraw(f, "value", codec_name[info[Codec]],
                                         codec_name[info[Codec]], f.xy, f.font)>>,
               cache |-> cache]
         ELSE [exc |-> "other", draws |-> LabelDraws(f), cache |-> cache]
    ELSE NoDraws(cache)

\* Lines 620-624: display_string of the artist field, <<>> for None.
display_string_bare(info) ==
    IF info[Artist] # <<>> THEN info[Artist] ELSE info[Composer]

display_string(info) ==
    IF info[Artist] # <<>>
    THEN info[Artist]
    ELSE IF info[Composer] # <<>>
    THEN <<"(">> \o info[Composer] \o <<")">>
    ELSE <<>>

\* Lines 626-637: the artist field draws a display_string that is not empty.
ArtistDraws(f, string, cache) ==
    IF string # <<>> THEN ValueDraws(f, string, cache) ELSE NoDraws(cache)

\* Lines 619-637: the artist field.
artist_field(f, info, cache) == ArtistDraws(f, display_string(info), cache)

\* Lines 643-647: the label of the field, drawn before its value v.
WithLabel(f, v) == [v EXCEPT !.draws = LabelDraws(f) \o @]

\* Lines 640-659: any other field.
other_field(f, info, cache) ==
    IF f.name \in DOMAIN info /\ info[f.name] # <<>>
    THEN WithLabel(f, ValueDraws(f, info[f.name], cache))
    ELSE NoDraws(cache)

\* Lines 606, 619 and 639: the branch of the loop body taken for field f.
field_draws(f, info, cache) ==
    CASE f.name = "codec" -> codec_field(f, info, cache)
      [] f.name = "artist" -> artist_field(f, info, cache)
      [] OTHER -> other_field(f, info, cache)

\* Lines 604-659: the loop over txt_field from index on, after the draws
\* made so far; r is what the body did for the field at index, and an
\* exception of truncate_text ends the loop.
RECURSIVE text_fields(_, _, _, _, _)
AfterField(txt_field, index, info, draws, r) ==
    IF r.exc # "none"
    THEN [exc |-> r.exc, draws |-> draws \o r.draws, cache |-> r.cache]
    ELSE text_fields(txt_field, index + 1, info, r.cache, draws \o r.draws)

text_fields(txt_field, index, info, cache, draws) ==
    IF index > Len(txt_field)
    THEN [exc |-> "none", draws |-> draws, cache |-> cache]
    ELSE AfterField(txt_field, index, info, draws,
                    field_draws(txt_field[index], info, cache))

\* The text-field loop has not run.
NoFields ==
    [info |-> <<>>, txt_field |-> <<>>, draws |-> <<>>, exc |-> "none",
     cache |-> <<>>]

\* ------------------------------------------------------------------- state

RenderPcs == {"timer", "players", "idle_clear", "idle_wake", "idle_show",
              "audio_on", "audio_mode", "audio_info", "audio_prog",
              "audio_screens", "display"}

\* Thread t is inside the render pass of update_display: past lock.acquire()
\* and not yet past lock.release().
InRender(t) == pc[t] \in RenderPcs

NoLocals == [t \in Threads |-> "none"]
NoArtLog == [fetch |-> FALSE, open |-> FALSE, rpc |-> FALSE, fail |-> "none"]

InitProgram ==
    /\ pc = [t \in Threads |-> IF t = "main" THEN "waiting" ELSE "t_idle"]
    /\ exc = [t \in Threads |-> "none"]
    /\ lock = "free"
    /\ kodi_active = FALSE
    /\ screen_press = FALSE
    /\ screen_active = FALSE
    /\ now = 0
    /\ screen_offtime = 0
    /\ ticks = 0
    /\ _last_image_path = None
    /\ _last_thumb = NoImage
    /\ _last_image_time = None
    /\ backlight = TRUE
    /\ image = "blank"
    /\ shown = "blank"
    /\ response = NoLocals
    /\ track_info = NoLocals
    /\ prog = [t \in Threads |-> NoProgress]
    /\ tpress = FALSE
    /\ pass_press = [t \in Threads |-> "no"]
    /\ pass_expired = [t \in Threads |-> FALSE]
    /\ art_log = NoArtLog
    /\ prev_cover = NoCover
    /\ last_trunc = <<>>
    /\ call = NoCall
    /\ seen = 0
    /\ calls = 0
    /\ bar = NoBar
    /\ prog_reply = "none"
    /\ consumed = 0
    /\ fields = NoFields

\* Lines 136-141: ADisplay is populated from ALAYOUT_NAMES and audio_dmode is
\* the configured initial layout (ALAYOUT_INITIAL, any of the names); no
\* next() call has been recorded.
InitLayouts(names) ==
    /\ members = names
    /\ audio_dmode \in {names[i] : i \in 1..Len(names)}
    /\ visited = <<>>

cycle_vars == <<visited, start, consumed>>
trunc_vars == <<last_trunc, call, seen, calls>>
config_vars == <<members, USE_BACKLIGHT, _local_kodi, trunc_vars, fields>>
clock_vars == <<now, ticks>>
art_vars == <<_last_image_path, _last_thumb, _last_image_time, art_log, prev_cover,
              bar, prog_reply>>
screen_vars == <<screen_active, screen_offtime>>
local_vars == <<response, track_info, prog, pass_expired>>

Goto(t, label) == pc' = [pc EXCEPT ![t] = label]

\* update_display's locals are gone once the call has returned or raised.
DropLocals(t) ==
    /\ response' = [response EXCEPT ![t] = "none"]
    /\ track_info' = [track_info EXCEPT ![t] = "none"]
    /\ prog' = [prog EXCEPT ![t] = NoProgress]
    /\ pass_press' = [pass_press EXCEPT ![t] = "no"]
    /\ pass_expired' = [pass_expired EXCEPT ![t] = FALSE]

\* An exception of the given kind leaves update_display in thread t: "conn"
\* is ConnectionRefusedError / requests.exceptions.ConnectionError, "other"
\* any other exception (KeyError, IndexError, ValueError, UnboundLocalError).
\* The lock is not released on the way out.
Raise(t, kind) ==
    /\ Goto(t, "raised")
    /\ exc' = [exc EXCEPT ![t] = kind]
    /\ DropLocals(t)

\* --------------------------------------------------------- update_display

\* threading.Lock.acquire() returns only when the lock is free.
LockFree_ignored == TRUE

LockFree == lock = "free"

\* Line 691.
Acquire(t) ==
    /\ pc[t] = "acquire"
    /\ LockFree
    /\ lock' = t
    /\ Goto(t, "timer")
    /\ UNCHANGED <<exc, kodi_active, screen_press, screen_vars, clock_vars,
                   config_vars, audio_dmode, art_vars, backlight, image, shown,
                   local_vars, tpress, pass_press, cycle_vars>>

\* Line 697: the status screen's wake time has expired.
TimerExpired_late == screen_active /\ now > screen_offtime

TimerExpired == screen_active /\ now >= screen_offtime

\* Lines 694-699.
TimerCheck(t) ==
    /\ pc[t] = "timer"
    /\ image' = "blank"
    /\ IF TimerExpired
       THEN /\ screen_active' = FALSE
            /\ backlight' = screen_off(backlight)
            /\ pass_expired' = [pass_expired EXCEPT ![t] = TRUE]
       ELSE UNCHANGED <<screen_active, backlight, pass_expired>>
    /\ Goto(t, "players")
    /\ UNCHANGED <<exc, lock, kodi_active, screen_press, screen_offtime,
                   clock_vars, config_vars, audio_dmode, art_vars, shown,
                   response, track_info, prog, tpress, pass_press, cycle_vars>>

\* Lines 702-710 and 747: Player.GetActivePlayers.  The reply names no
\* player ("idle"), a video, picture or audio player, as world.players allows;
\* or it is malformed ("bad": no JSON, no result, no type); or the connection
\* fails ("conn").
QueryPlayers(t, world) ==
    /\ pc[t] = "players"
    /\ \E r \in world.players \cup {"bad", "conn"} :
          CASE r = "conn" -> Raise(t, "conn")
            [] r = "bad" -> Raise(t, "other")
            [] OTHER ->
                 /\ response' = [response EXCEPT ![t] = r]
                 /\ Goto(t, IF r = "audio" THEN "audio_on" ELSE "idle_clear")
                 /\ UNCHANGED <<exc, track_info, prog, pass_press, pass_expired>>
    /\ UNCHANGED <<lock, kodi_active, screen_press, screen_vars, clock_vars,
                   config_vars, audio_dmode, art_vars, backlight, image, shown,
                   tpress, cycle_vars>>

\* Lines 713-717.  _last_image_time is not declared global in update_display:
\* line 714 assigns a local, and the module's _last_image_time keeps its value.
IdleClear(t) ==
    /\ pc[t] = "idle_clear"
    /\ _last_image_path' = None
    /\ _last_thumb' = NoImage
    /\ prev_cover' = NoCover
    /\ Goto(t, IF screen_press THEN "idle_wake" ELSE "idle_show")
    /\ UNCHANGED <<exc, lock, kodi_active, screen_press, screen_vars, clock_vars,
                   config_vars, audio_dmode, _last_image_time, art_log, bar,
                   prog_reply, backlight,
                   image, shown, local_vars, tpress, pass_press, cycle_vars>>

\* Line 721: the time at which the status screen goes off again.
WakeOfftime_short == now + screen_wake - 1

WakeOfftime == now + screen_wake

\* Lines 718 and 754: screen_press once a pass has consumed the press.
PressAfterConsume_kept == screen_press

PressAfterConsume == FALSE

\* One more pass has consumed a press (counted up to 2).
Consume == consumed' = IF consumed < 2 THEN consumed + 1 ELSE consumed

\* Lines 717-721: audio_dmode after a press has woken the idle screen; the
\* branch does not assign it.
WakeMode_next(mode) == next(mode)

WakeMode(mode) == mode

\* Lines 718-721.
IdleWake(t) ==
    /\ pc[t] = "idle_wake"
    /\ screen_press' = PressAfterConsume
    /\ Consume
    /\ audio_dmode' = WakeMode(audio_dmode)
    /\ backlight' = screen_on(backlight)
    /\ screen_active' = TRUE
    /\ screen_offtime' = WakeOfftime
    /\ pass_press' = [pass_press EXCEPT ![t] = "idle"]
    /\ Goto(t, "idle_show")
    /\ UNCHANGED <<exc, lock, kodi_active, clock_vars, config_vars, art_vars,
                   image, shown, local_vars, tpress, visited, start>>

\* Lines 723-745: the status screen (after XBMC.GetInfoLabels for the system
\* labels) when the screen is active, screen_off() otherwise.
IdleShow(t) ==
    /\ pc[t] = "idle_show"
    /\ IF screen_active
       THEN \E r \in {"ok", "bad", "conn"} :
              CASE r = "conn" -> Raise(t, "conn") /\ UNCHANGED image
                [] r = "bad" -> Raise(t, "other") /\ UNCHANGED image
                [] OTHER -> /\ image' = "status"
                            /\ Goto(t, "display")
                            /\ UNCHANGED <<exc, local_vars, pass_press>>
       ELSE /\ Goto(t, "display")
            /\ UNCHANGED <<exc, image, local_vars, pass_press>>
    /\ backlight' = IF screen_active THEN backlight ELSE screen_off(backlight)
    /\ UNCHANGED <<lock, kodi_active, screen_press, screen_vars, clock_vars,
                   config_vars, audio_dmode, art_vars, shown, tpress, cycle_vars>>

\* Lines 749-753.
AudioOn(t) ==
    /\ pc[t] = "audio_on"
    /\ backlight' = screen_on(backlight)
    /\ Goto(t, IF screen_press THEN "audio_mode" ELSE "audio_info")
    /\ UNCHANGED <<exc, lock, kodi_active, screen_press, screen_vars, clock_vars,
                   config_vars, audio_dmode, art_vars, image, shown, local_vars,
                   tpress, pass_press, cycle_vars>>

\* Line 757: _last_image_path after a change of display mode.
ModeChangePath_kept == _last_image_path

ModeChangePath == None

\* Lines 754-759; line 758 assigns a local, as line 714 does.
AudioMode(t) ==
    /\ pc[t] = "audio_mode"
    /\ screen_press' = PressAfterConsume
    /\ Consume
    /\ audio_dmode' = next(audio_dmode)
    /\ _last_image_path' = ModeChangePath
    /\ _last_thumb' = NoImage
    /\ prev_cover' = NoCover
    /\ pass_press' = [pass_press EXCEPT ![t] = "audio"]
    /\ Goto(t, "audio_info")
    /\ UNCHANGED <<exc, lock, kodi_active, screen_vars, clock_vars, config_vars,
                   _last_image_time, art_log, bar, prog_reply, backlight, image,
                   shown, local_vars, tpress, visited, start>>

\* Lines 762-781: XBMC.GetInfoLabels for the track; of the labels, the model
\* keeps MusicPlayer.Cover, which the player draws from world.covers.
AudioInfo(t, world) ==
    /\ pc[t] = "audio_info"
    /\ \E r \in world.covers \cup {"bad", "conn"} :
          CASE r = "conn" -> Raise(t, "conn")
            [] r = "bad" -> Raise(t, "other")
            [] OTHER -> /\ track_info' = [track_info EXCEPT ![t] = r]
                        /\ Goto(t, "audio_prog")
                        /\ UNCHANGED <<exc, response, prog, pass_press, pass_expired>>
    /\ UNCHANGED <<lock, kodi_active, screen_press, screen_vars, clock_vars,
                   config_vars, audio_dmode, art_vars, backlight, image, shown,
                   tpress, cycle_vars>>

\* The percentages Player.GetProperties reports, in the model.
Percentages == {50}

\* Lines 785-798: Player.GetProperties; prog is the percentage as a
\* fraction, or -1 when the reply has no result or no percentage ("absent");
\* world.progress is which of the two replies the player gives.
AudioProg(t, world) ==
    /\ pc[t] = "audio_prog"
    /\ \E r \in world.progress \cup {"bad", "conn"} :
          /\ prog_reply' = IF r \in {"bad", "conn"} THEN "none" ELSE r
          /\ CASE r = "conn" -> Raise(t, "conn")
               [] r = "bad" -> Raise(t, "other")
               [] OTHER -> /\ \E p \in Percentages :
                                prog' = [prog EXCEPT ![t] = IF r = "absent" THEN NoProgress
                                                           ELSE Fraction(p)]
                           /\ Goto(t, "audio_screens")
                           /\ UNCHANGED <<exc, response, track_info, pass_press,
                                          pass_expired>>
    /\ UNCHANGED <<lock, kodi_active, screen_press, screen_vars, clock_vars,
                   config_vars, audio_dmode, _last_image_path, _last_thumb,
                   _last_image_time, art_log, prev_cover, bar, backlight, image,
                   shown, tpress, cycle_vars>>

\* Lines 801 and 557-659: audio_screens, which resolves the artwork when the
\* layout has a thumb, draws the progress bar when the progress is known and
\* the layout has one, and draws the text fields; world.art[cover] is what the
\* network and the disk may answer while that cover is resolved.
AudioScreens(t, world) ==
    /\ pc[t] = "audio_screens"
    /\ IF HasThumb(audio_dmode)
       THEN \E env \in world.art[track_info[t]] :
              LET r == get_artwork(track_info[t], _last_thumb, _last_image_path,
                                   _last_image_time, env)
              IN  /\ _last_image_path' = r.path
                  /\ _last_image_time' = r.time
                  /\ art_log' = [fetch |-> r.fetch, open |-> r.open, rpc |-> r.rpc,
                                  fail |-> r.fail]
                  /\ IF r.exc # "none"
                     THEN /\ Raise(t, r.exc)
                          /\ prog_reply' = "none"
                          /\ UNCHANGED <<_last_thumb, prev_cover, image, bar>>
                     ELSE /\ _last_thumb' = r.prev_image
                          /\ prev_cover' = track_info[t]
                          /\ bar' \in ProgBars(audio_dmode, prog[t])
                          /\ image' = "audio"
                          /\ Goto(t, "display")
                          /\ UNCHANGED <<exc, local_vars, pass_press, prog_reply>>
       ELSE /\ _last_thumb' = NoImage
            /\ bar' \in ProgBars(audio_dmode, prog[t])
            /\ image' = "audio"
            /\ Goto(t, "display")
            /\ UNCHANGED <<exc, local_vars, pass_press, _last_image_path,
                           _last_image_time, art_log, prev_cover, prog_reply>>
    /\ UNCHANGED <<lock, kodi_active, screen_press, screen_vars, clock_vars,
                   config_vars, audio_dmode, backlight, shown, tpress, cycle_vars>>

\* Lines 804-805, and the return: main() sleeps and calls update_display
\* again (lines 911 and 885-892), touch_callback goes on to line 817.
Display(t) ==
    /\ pc[t] = "display"
    /\ shown' = image
    /\ lock' = "free"
    /\ DropLocals(t)
    /\ art_log' = NoArtLog
    /\ bar' = NoBar
    /\ prog_reply' = "none"
    /\ Goto(t, IF t = "main" THEN "acquire" ELSE "t_clear")
    /\ UNCHANGED <<exc, kodi_active, screen_press, screen_vars, clock_vars,
                   config_vars, audio_dmode, _last_image_path, _last_thumb,
                   _last_image_time, prev_cover, backlight, image, tpress,
                   cycle_vars>>


\* --------------------------------------------------------- touch_callback

\* Line 812, the read: a press starts the callback, which reads kodi_active.
TouchRead ==
    /\ pc["touch"] = "t_idle"
    /\ tpress' = kodi_active
    /\ Goto("touch", "t_set")
    /\ UNCHANGED <<exc, lock, kodi_active, screen_press, screen_vars, clock_vars,
                   config_vars, audio_dmode, art_vars, backlight, image, shown,
                   local_vars, pass_press, cycle_vars>>

\* Line 812, the write: screen_press = (the value read).
TouchSet ==
    /\ pc["touch"] = "t_set"
    /\ screen_press' = tpress
    /\ consumed' = 0
    /\ Goto("touch", "t_check")
    /\ UNCHANGED <<exc, lock, kodi_active, screen_vars, clock_vars, config_vars,
                   audio_dmode, art_vars, backlight, image, shown, local_vars,
                   tpress, pass_press, visited, start>>

\* Lines 813-816: kodi_active is read again, and update_display() is called
\* only when it is set; otherwise the callback returns.
TouchCheck ==
    /\ pc["touch"] = "t_check"
    /\ Goto("touch", IF kodi_active THEN "acquire" ELSE "t_idle")
    /\ tpress' = IF kodi_active THEN tpress ELSE FALSE
    /\ UNCHANGED <<exc, lock, kodi_active, screen_press, screen_vars, clock_vars,
                   config_vars, audio_dmode, art_vars, backlight, image, shown,
                   local_vars, pass_press, cycle_vars>>

\* Line 817, after update_display() has returned.
TouchClear ==
    /\ pc["touch"] = "t_clear"
    /\ screen_press' = FALSE
    /\ consumed' = 0
    /\ tpress' = FALSE
    /\ Goto("touch", "t_idle")
    /\ UNCHANGED <<exc, lock, kodi_active, screen_vars, clock_vars, config_vars,
                   audio_dmode, art_vars, backlight, image, shown, local_vars,
                   pass_press, visited, start>>

\* Lines 818-819: any exception of update_display() is swallowed, and the
\* callback returns without executing line 817.
TouchExcept ==
    /\ pc["touch"] = "raised"
    /\ exc' = [exc EXCEPT !["touch"] = "none"]
    /\ consumed' = IF screen_press THEN consumed ELSE 0
    /\ tpress' = FALSE
    /\ Goto("touch", "t_idle")
    /\ UNCHANGED <<lock, kodi_active, screen_press, screen_vars, clock_vars,
                   config_vars, audio_dmode, art_vars, backlight, image, shown,
                   local_vars, pass_press, visited, start>>

\* ------------------------------------------------------------------- main

\* Lines 855-858: the waiting screen.
MainWaiting ==
    /\ pc["main"] = "waiting"
    /\ backlight' = screen_on(backlight)
    /\ image' = "waiting"
    /\ shown' = "waiting"
    /\ Goto("main", "ping")
    /\ UNCHANGED <<exc, lock, kodi_active, screen_press, screen_vars, clock_vars,
                   config_vars, audio_dmode, art_vars, local_vars, tpress,
                   pass_press, cycle_vars>>

\* Lines 860-877: JSONRPC.Ping; anything but a "pong" reply, an exception
\* included, is followed by time.sleep(5) and another ping.
MainPing ==
    /\ pc["main"] = "ping"
    /\ \E r \in {"pong", "other", "error"} :
          Goto("main", IF r = "pong" THEN "connected" ELSE "ping")
    /\ UNCHANGED <<exc, lock, kodi_active, screen_press, screen_vars, clock_vars,
                   config_vars, audio_dmode, art_vars, backlight, image, shown,
                   local_vars, tpress, pass_press, cycle_vars>>

\* Line 880.
MainConnected ==
    /\ pc["main"] = "connected"
    /\ backlight' = screen_off(backlight)
    /\ Goto("main", "activate")
    /\ UNCHANGED <<exc, lock, kodi_active, screen_press, screen_vars, clock_vars,
                   config_vars, audio_dmode, art_vars, image, shown, local_vars,
                   tpress, pass_press, cycle_vars>>

\* Line 883.
MainActivate ==
    /\ pc["main"] = "activate"
    /\ kodi_active' = TRUE
    /\ Goto("main", "setpress")
    /\ UNCHANGED <<exc, lock, screen_press, screen_vars, clock_vars, config_vars,
                   audio_dmode, art_vars, backlight, image, shown, local_vars,
                   tpress, pass_press, cycle_vars>>

\* Line 884, then the first update_display() of the inner loop (line 892).
MainSetPress ==
    /\ pc["main"] = "setpress"
    /\ screen_press' = FALSE
    /\ consumed' = 0
    /\ Goto("main", "acquire")
    /\ UNCHANGED <<exc, lock, kodi_active, screen_vars, clock_vars, config_vars,
                   audio_dmode, art_vars, backlight, image, shown, local_vars,
                   tpress, pass_press, visited, start>>

\* Lines 893-897: the exceptions the inner loop catches.
Caught(kind) == kind = "conn"

\* Line 896: kodi_active after a caught exception.
ActiveAfterDisconnect_kept == kodi_active

ActiveAfterDisconnect == FALSE

\* Lines 893-897: a connection error ends the inner loop and main() goes back
\* to line 855; any other exception is not caught and ends main().
MainExcept ==
    /\ pc["main"] = "raised"
    /\ IF Caught(exc["main"])
       THEN /\ kodi_active' = ActiveAfterDisconnect
            /\ Goto("main", "waiting")
       ELSE /\ Goto("main", "crashed")
            /\ UNCHANGED kodi_active
    /\ exc' = [exc EXCEPT !["main"] = "none"]
    /\ UNCHANGED <<lock, screen_press, screen_vars, clock_vars, config_vars,
                   audio_dmode, art_vars, backlight, image, shown, local_vars,
                   tpress, pass_press, cycle_vars>>

\* ------------------------------------------------------------------ clock

\* Time passes: datetime.now() grows.
Tick ==
    /\ ticks < MaxTicks
    /\ \E d \in TickSteps : now' = now + d
    /\ ticks' = ticks + 1
    /\ UNCHANGED <<pc, exc, lock, kodi_active, screen_press, screen_vars,
                   config_vars, audio_dmode, art_vars, backlight, image, shown,
                   local_vars, tpress, pass_press, cycle_vars>>

UpdateDisplay(t, world) ==
    \/ Acquire(t)
    \/ TimerCheck(t)
    \/ QueryPlayers(t, world)
    \/ IdleClear(t)
    \/ IdleWake(t)
    \/ IdleShow(t)
    \/ AudioOn(t)
    \/ AudioMode(t)
    \/ AudioInfo(t, world)
    \/ AudioProg(t, world)
    \/ AudioScreens(t, world)
    \/ Display(t)

Main(world) ==
    \/ MainWaiting
    \/ MainPing
    \/ MainConnected
    \/ MainActivate
    \/ MainSetPress
    \/ MainExcept
    \/ UpdateDisplay("main", world)

Touch(world) ==
    \/ TouchRead
    \/ TouchSet
    \/ TouchCheck
    \/ TouchClear
    \/ TouchExcept
    \/ UpdateDisplay("touch", world)

\* ---------------------------------------------------------- specifications

\* The polling loop, the touch callback and the clock, for a player that
\* reports no cover or a library cover and a network on which a fetch
\* succeeds, fails with a status, or loses the connection.
Players == {"idle", "video", "picture", "audio"}
ScreenCovers == {"", LibraryCover}
ScreenEnvs ==
    [cover \in Covers |->
        {env \in ArtEnvs : /\ env.prep = "ok" /\ env.decode /\ env.isfile
                           /\ env.details = None}]

Init ==
    /\ InitProgram
    /\ InitLayouts(MainLayouts)
    /\ start = 0
    /\ USE_BACKLIGHT \in BOOLEAN
    /\ _local_kodi = FALSE

ScreenWorld ==
    [players |-> Players, covers |-> ScreenCovers,
     progress |-> {"percentage", "absent"}, art |-> ScreenEnvs]

Next == Main(ScreenWorld) \/ Touch(ScreenWorld) \/ Tick

Spec == Init /\ [][Next]_vars

\* The polling loop and the touch callback with every cover and every answer
\* of the network and the disk, on a display with a backlight, for a player
\* that is idle or plays audio and reports its progress; the clock stands
\* still.
ArtInit ==
    /\ InitProgram
    /\ InitLayouts(ArtLayouts)
    /\ start = 0
    /\ USE_BACKLIGHT = TRUE
    /\ _local_kodi \in BOOLEAN

\* One environment for each way a get_artwork call can go: an answer the
\* call cannot get to read is fixed.  The image is not requested unless
\* Files.PrepareDownload gave a path (or the cover is a URL, whatever prep
\* is), and is not decoded unless its status is 200.
Readable(env) ==
    /\ env.prep # "ok" => env.get = "200"
    /\ env.get # "200" => env.decode

\* get_artwork reads the answers of Files.GetFileDetails and of os.path.isfile
\* for an Airplay cover only.
CoverEnvs ==
    [cover \in Covers |->
        IF airtunes_re_match(cover) THEN {env \in ArtEnvs : Readable(env)}
        ELSE {env \in ArtEnvs : Readable(env) /\ env.details = None /\ ~env.isfile}]

ArtWorld ==
    [players |-> {"idle", "audio"}, covers |-> Covers,
     progress |-> {"percentage"}, art |-> CoverEnvs]

ArtNext == Main(ArtWorld) \/ Touch(ArtWorld)

ArtSpec == ArtInit /\ [][ArtNext]_vars

\* Successive ADisplay.next() calls on any configured list of at most
\* MaxLayouts variants, from any starting variant.
LayoutNames == 1..MaxLayouts

LayoutLists ==
    {names \in UNION {[1..n -> LayoutNames] : n \in 1..MaxLayouts} :
        \A i, j \in 1..Len(names) : names[i] = names[j] => i = j}

CycleInit ==
    /\ InitProgram
    /\ \E names \in LayoutLists : InitLayouts(names)
    /\ start = audio_dmode
    /\ USE_BACKLIGHT = TRUE
    /\ _local_kodi = FALSE

\* audio_dmode = audio_dmode.next() (line 755), at most once per variant.
CycleNext ==
    /\ Len(visited) < Len(members)
    /\ audio_dmode' = next(audio_dmode)
    /\ visited' = Append(visited, audio_dmode')
    /\ UNCHANGED <<pc, exc, lock, kodi_active, screen_press, screen_vars,
                   clock_vars, config_vars, art_vars, backlight, image, shown,
                   local_vars, tpress, pass_press, start, consumed>>

CycleSpec == CycleInit /\ [][CycleNext]_vars

\* truncate_text called for the lines of the playlist: a line is drawn for the
\* first time after the lines before it, a line drawn before may be drawn
\* again at any time, at any of the positions; at most MaxCalls calls.
TruncInit ==
    /\ InitProgram
    /\ InitLayouts(MainLayouts)
    /\ audio_dmode = MainLayouts[1]
    /\ start = 0
    /\ USE_BACKLIGHT = TRUE
    /\ _local_kodi = FALSE

\* One truncate_text call (lines 260-306), from audio_screens (lines 628 and
\* 650).
TruncateText ==
    /\ calls < MaxCalls
    /\ \E i \in 1..(IF seen < Len(Playlist) THEN seen + 1 ELSE seen) :
         \E xy \in Positions :
            LET line == Playlist[i]
                r == truncate_text(xy, line.text, line.font, last_trunc)
            IN  /\ r.exc = "none"
                /\ last_trunc' = r.last_trunc
                /\ call' = [text |-> line.text, font |-> line.font, xy |-> xy,
                            drawn |-> r.drawn, measures |-> r.measures]
                /\ seen' = IF i > seen THEN i ELSE seen
    /\ calls' = calls + 1
    /\ UNCHANGED <<pc, exc, lock, kodi_active, screen_press, screen_vars,
                   clock_vars, members, USE_BACKLIGHT, _local_kodi, fields,
                   audio_dmode,
                   art_vars, backlight, image, shown, local_vars, tpress,
                   pass_press, cycle_vars>>

TruncNext == TruncateText

TruncSpec == TruncInit /\ [][TruncNext]_vars

\* progress_bar called with any progress, below, inside and above (0, 1], for
\* horizontal and vertical bars of several sizes and positions.
Progresses == {NoProgress, -1, 0, 1, 5, MinFraction, 500, FullFraction - 1,
               FullFraction, FullFraction + 1, 2500}
BarCorners == {0, 10}
BarLengths == {1, 100}

BarInit ==
    /\ InitProgram
    /\ InitLayouts(MainLayouts)
    /\ audio_dmode = MainLayouts[1]
    /\ start = 0
    /\ USE_BACKLIGHT = TRUE
    /\ _local_kodi = FALSE

\* One progress_bar call (lines 313-326).
ProgressBar ==
    /\ \E x, y \in BarCorners, w, h \in BarLengths, progress \in Progresses,
          vertical \in BOOLEAN :
          bar' = progress_bar(x, y, w, h, progress, vertical)
    /\ UNCHANGED <<pc, exc, lock, kodi_active, screen_press, screen_vars,
                   clock_vars, config_vars, audio_dmode, _last_image_path,
                   _last_thumb, _last_image_time, art_log, prev_cover, prog_reply,
                   backlight, image, shown, local_vars, tpress, pass_press,
                   cycle_vars>>

BarNext == ProgressBar

BarSpec == BarInit /\ [][BarNext]_vars

\* The text-field loop of audio_screens run for any info and any of the
\* layouts below, one frame after the other, last_trunc kept between frames.
Names == {<<>>, <<"W", "i">>, Repeat("W", 30)}
Composers == {<<>>, <<"i", "W">>}
CodecIds == {"flac", "opus"}
Titles == {<<"W">>}

Infos ==
    {(Artist :> a) @@ (Composer :> c) @@ (Codec :> k) @@ (Title :> t) :
        a \in Names, c \in Composers, k \in CodecIds, t \in Titles}

FieldLabel == <<"c", ":">>

Field(name, haslabel, trunc, posy) ==
    [name |-> name, haslabel |-> haslabel, label |-> FieldLabel,
     lxy |-> <<0, posy>>, lfont |-> "small", trunc |-> trunc,
     xy |-> <<145, posy>>, font |-> "small"]

\* A codec field with or without a label, an artist field with or without
\* "trunc" and a title field, the codec field first or last.
FieldLayouts ==
    UNION {{<<Field("codec", l, FALSE, 0), Field("artist", FALSE, tr, 20),
              Field(Title, TRUE, FALSE, 40)>>,
            <<Field("artist", FALSE, tr, 20), Field(Title, TRUE, FALSE, 40),
              Field("codec", l, FALSE, 0)>>} : l, tr \in BOOLEAN}

\* The loop has run over txt_field for info and done r.
FrameDrawn(info, txt_field, r) ==
    /\ fields' = [info |-> info, txt_field |-> txt_field, draws |-> r.draws,
                  exc |-> r.exc, cache |-> last_trunc]
    /\ last_trunc' = r.cache

FieldInit ==
    /\ InitProgram
    /\ InitLayouts(MainLayouts)
    /\ audio_dmode = MainLayouts[1]
    /\ start = 0
    /\ USE_BACKLIGHT = TRUE
    /\ _local_kodi = FALSE

\* One run of the loop of lines 598-659.
TextFields ==
    /\ \E info \in Infos, txt_field \in FieldLayouts :
          FrameDrawn(info, txt_field,
                     text_fields(txt_field, 1, info, last_trunc, <<>>))
    /\ UNCHANGED <<pc, exc, lock, kodi_active, screen_press, screen_vars,
                   clock_vars, members, USE_BACKLIGHT, _local_kodi, call, seen,
                   calls, audio_dmode, art_vars, backlight, image, shown,
                   local_vars, tpress, pass_press, cycle_vars>>

FieldNext == TextFields

FieldSpec == FieldInit /\ [][FieldNext]_vars

\* ------------------------------------------------------------ properties

\* Thread t takes the step that leaves position p.
Leaves(t, p) == pc[t] = p /\ pc'[t] # p

\* C1: at most one thread is inside the render pass of update_display at any
\* time: a press-initiated render never overlaps a poll-initiated one.
C1_OneRenderAtATime == ~(InRender("main") /\ InRender("touch"))

\* The touch callback renders while the polling loop waits for the lock.
C1_Witness == InRender("touch") /\ pc["main"] = "acquire" /\ lock = "touch"

\* C2: a connection error raised in a render pass of the polling loop ends
\* the inner loop with kodi_active False; main() then shows the waiting screen
\* and pings, again and again until a pong, and kodi_active stays False
\* meanwhile.
C2_DisconnectResumesPing ==
    [][/\ (Leaves("main", "raised") /\ exc["main"] = "conn")
            => (pc'["main"] = "waiting" /\ ~kodi_active')
       /\ Leaves("main", "waiting")
            => (pc'["main"] = "ping" /\ shown' = "waiting" /\ ~kodi_active')
       /\ pc["main"] = "ping"
            => (pc'["main"] \in {"ping", "connected"} /\ ~kodi_active')]_vars

\* The polling loop pings again after one of its render passes has failed
\* (the lock that pass took is still held).
C2_Witness == pc["main"] = "ping" /\ lock = "main" /\ ~kodi_active

\* C3: no invocation of update_display is wedged; in particular, once a render
\* pass of the polling loop has failed and the ping loop has reconnected, the
\* polling loop does not wait for a lock that its own failed pass still holds.
C3_PollingNeverWedged == ~(pc["main"] = "acquire" /\ lock = "main")

\* C4: no error of a poll cycle ends main().
C4_NoErrorEscapesMain == pc["main"] # "crashed"

\* C5: n successive next() calls on a list of n variants visit every variant
\* exactly once and end on the starting variant, and next() of the last
\* variant is the first one.
C5_NextCycles ==
    LET n == Len(members)
        before(i) == IF i = 1 THEN start ELSE visited[i - 1]
    IN  /\ Len(visited) = n
            => /\ {visited[i] : i \in 1..n} = {members[i] : i \in 1..n}
               /\ \A i, j \in 1..n : visited[i] = visited[j] => i = j
               /\ visited[n] = start
        /\ \A i \in 1..Len(visited) :
              before(i) = members[n] => visited[i] = members[1]

\* Three variants, all visited, starting from one that is not the first.
C5_Witness == Len(members) = 3 /\ Len(visited) = 3 /\ start # members[1]

\* A library or remote cover: the covers that lines 351-392 resolve, with
\* the locator as the key of the cache.
IsLocator(cover) == cover \in {LibraryCover, HttpCover}

C7_PressWakesIdleScreen ==
    [][\A t \in Threads :
          /\ (Leaves(t, "idle_clear") /\ screen_press) => pc'[t] = "idle_wake"
          /\ Leaves(t, "idle_wake")
                => /\ ~screen_press'
                   /\ screen_active'
                   /\ screen_offtime' = now + screen_wake
                   /\ USE_BACKLIGHT => backlight'
                   /\ pc'[t] = "idle_show"
          /\ (pass_press[t] = "idle" /\ pc[t] \in {"idle_show", "display"})
                => (screen_active /\ (USE_BACKLIGHT => backlight))
          /\ (pass_press[t] = "idle" /\ Leaves(t, "idle_show"))
                => (pc'[t] = "raised" \/ (pc'[t] = "display" /\ image' = "status"))
          /\ (pass_press[t] = "idle" /\ Leaves(t, "display"))
                => shown' = "status"]_vars

\* A pass woke the idle screen at a time after the start and is about to
\* emit the status screen.
C7_Witness ==
    \E t \in Threads :
        /\ pc[t] = "display" /\ pass_press[t] = "idle" /\ image = "status"
        /\ screen_offtime > screen_wake /\ USE_BACKLIGHT /\ backlight

\* C8: in every render pass, if screen_active and now >= screen_offtime then
\* screen_active becomes false and the backlight is turned off; a screen that
\* is still active after the check of a pass has not reached screen_offtime;
\* and screen_active never becomes false before screen_offtime.
C8_WakeTimeExpires ==
    [][/\ \A t \in Threads :
            Leaves(t, "timer")
               => /\ (screen_active /\ now >= screen_offtime)
                       => (~screen_active' /\ (USE_BACKLIGHT => ~backlight'))
                  /\ screen_active' => now < screen_offtime
       /\ (screen_active /\ ~screen_active') => now >= screen_offtime]_vars

\* The check of a pass found the wake time reached exactly, and the screen
\* is inactive with the backlight off.
C8_Witness ==
    \E t \in Threads :
        /\ pc[t] = "players" /\ pass_expired[t] /\ now = screen_offtime
        /\ ~screen_active /\ USE_BACKLIGHT /\ ~backlight

\* C9: when a render pass that found audio playing ends, the backlight is on
\* (where the backlight is in use), whatever screen_active and
\* screen_offtime are.
C9_AudioKeepsBacklightOn ==
    \A t \in Threads :
        (pc[t] = "display" /\ response[t] = "audio") => (USE_BACKLIGHT => backlight)

\* A pass in which the wake time expired found audio playing and ends with
\* the backlight on.
C9_Witness ==
    \E t \in Threads :
        /\ pc[t] = "display" /\ response[t] = "audio" /\ pass_expired[t]
        /\ USE_BACKLIGHT /\ backlight

\* C10: a resolution whose cover locator is the one of the resolution before
\* it (no stop or mode change in between) returns the image that resolution
\* returned, the same instance, without a fetch and without opening an image
\* (stated for a library or remote cover).
C10_UnchangedLocatorReusesImage ==
    [][\A t \in Threads :
          (Leaves(t, "audio_screens") /\ HasThumb(audio_dmode)
             /\ track_info[t] = prev_cover /\ IsLocator(track_info[t]))
             => /\ pc'[t] = "display"
                /\ _last_thumb' = _last_thumb
                /\ ~art_log'.fetch
                /\ ~art_log'.open]_vars

\* C11: while the cover locator keeps its value and no stop or mode change
\* occurs, the cover is fetched at most once: a resolution whose locator is
\* the one of the resolution before it issues no network fetch, whatever the
\* outcome of the earlier fetch was.
C11_FetchedAtMostOnce ==
    [][\A t \in Threads :
          (Leaves(t, "audio_screens") /\ HasThumb(audio_dmode)
             /\ IsLocator(track_info[t]) /\ track_info[t] = prev_cover)
             => ~art_log'.fetch]_vars

\* C12: after a render pass that found nothing or a non-audio source playing,
\* and after a render pass that changed the audio layout on a press, both
\* _last_image_path and _last_image_time are empty.
C12_StopAndModeChangeEmptyCache ==
    [][\A t \in Threads :
          (Leaves(t, "idle_clear") \/ Leaves(t, "audio_mode"))
             => (_last_image_path' = None /\ _last_image_time' = None)]_vars

\* The images get_artwork falls back to when it has no cover.
DefaultImages == {default_thumb, default_airplay}

\* C13: when the retrieval of the image fails in a pass (a status other than
\* 200, bytes that do not decode, a download-preparation reply without a
\* path), get_artwork returns a default thumbnail, and the pass goes on to
\* emit the audio frame.
C13_FailedRetrievalGivesDefault ==
    [][\A t \in Threads :
          /\ (Leaves(t, "audio_screens") /\ art_log'.fail # "none")
                => /\ pc'[t] = "display"
                   /\ _last_thumb'.src \in DefaultImages
                   /\ image' = "audio"
          /\ (Leaves(t, "display") /\ art_log.fail # "none")
                => shown' = "audio"]_vars

\* C14: get_artwork always returns an image, never none: a pass whose layout
\* has a thumbnail and whose artwork resolution returned holds an image in
\* _last_thumb, also for an Airplay cover of a remote player with no image
\* cached.
C14_ArtworkNeverNone ==
    [][\A t \in Threads :
          (Leaves(t, "audio_screens") /\ HasThumb(audio_dmode)
             /\ pc'[t] = "display")
             => _last_thumb' # NoImage]_vars

\* The whole text, drawn at xy, does not reach past avail_width.
Fits(text, font, xy) == xy[1] + textsize(text, font) <= avail_width

\* C15: when the rendered width of the whole text fits the available extent
\* at the position it is drawn at, truncate_text draws the text unchanged,
\* all of its characters and no ellipsis, whatever its length.
C15_FittingTextUnchanged ==
    (call # NoCall /\ Fits(call.text, call.font, call.xy))
        => call.drawn = call.text

\* C16: when truncate_text draws something other than the whole text, what it
\* draws is a strict prefix of the first 59 characters of the text followed
\* by exactly one ellipsis, and the drawn string, ellipsis included, does not
\* reach past the available extent.
C16_ShortenedTextEndsInEllipsis ==
    (call # NoCall /\ call.drawn # call.text)
        => /\ \E k \in 0..(Len(Slice(call.text, KeyLen)) - 1) :
                 call.drawn = Append(SubSeq(call.text, 1, k), Ellipsis)
           /\ Fits(call.drawn, call.font, call.xy)

\* C17: a truncate_text call with the text and the font of the call before
\* it draws the string that call drew, measures no text width, and leaves the
\* cache as it was.
C17_RepeatedCallFromCache ==
    [][(calls' = calls + 1 /\ call # NoCall
          /\ call'.text = call.text /\ call'.font = call.font)
          => /\ call'.drawn = call.drawn
             /\ call'.measures = 0
             /\ last_trunc' = last_trunc]_vars

\* A text truncated at the right-hand position has been drawn a second time,
\* from the cache, at the left-hand one.
C17_Witness ==
    /\ calls = 3 /\ seen = 2
    /\ call.measures = 0 /\ call.xy = <<0, 0>>
    /\ call.text = Playlist[2].text /\ call.drawn # call.text
    /\ Len(last_trunc) = 2

\* C18: the truncation cache never holds more than 9 entries; a call that
\* misses puts its entry first and keeps the entries that were there in their
\* order behind it (so the entries are ordered newest first), and when 9
\* entries were present exactly the last, oldest one is dropped.
C18_CacheBoundedNewestFirst ==
    [][/\ Len(last_trunc) <= CacheLen
       /\ Len(last_trunc') <= CacheLen
       /\ (calls' = calls + 1 /\ call'.measures > 0)
            => /\ last_trunc'[1].str = Slice(call'.text, KeyLen)
               /\ last_trunc'[1].font = call'.font
               /\ last_trunc'[1].short_str = call'.drawn
               /\ Len(last_trunc') = IF Len(last_trunc) = CacheLen THEN CacheLen
                                     ELSE Len(last_trunc) + 1
               /\ \A i \in 2..Len(last_trunc') : last_trunc'[i] = last_trunc[i - 1]]_vars

\* Ten lines were drawn, which evicted the entry of the first; the first
\* line was then drawn again, missed, and is the newest of 9 entries.
C18_Witness ==
    /\ calls = 11 /\ seen = 10
    /\ call.text = Playlist[1].text /\ call.font = Playlist[1].font
    /\ call.measures > 0
    /\ Len(last_trunc) = CacheLen
    /\ last_trunc[1].str = Slice(Playlist[1].text, KeyLen)
    /\ last_trunc[CacheLen].str = Slice(Playlist[3].text, KeyLen)

\* The length of the bar and the length of its filled part, in thousandths
\* of a pixel: widths for a horizontal bar, heights for a vertical one.
BarLength(b) == Px(IF b.vertical THEN b.h ELSE b.w)
Filled(b) == IF b.vertical THEN b.fill[4] - b.fill[2] ELSE b.fill[3] - b.fill[1]

\* C19: the filled part of a progress bar is more than nothing and at most
\* the whole bar: 0.01 of its length for a progress <= 0, all of it for a
\* progress > 1, and exactly the progress times its length for a progress in
\* (0, 1]; a horizontal bar is filled from its left edge over its whole
\* height, a vertical one from its bottom edge over its whole width.
C19_FilledFractionClamped ==
    bar # NoBar
        => /\ 0 < Filled(bar) /\ Filled(bar) <= BarLength(bar)
           /\ bar.progress <= 0
                => Filled(bar) * FullFraction = MinFraction * BarLength(bar)
           /\ bar.progress > FullFraction => Filled(bar) = BarLength(bar)
           /\ (0 < bar.progress /\ bar.progress <= FullFraction)
                => Filled(bar) * FullFraction = bar.progress * BarLength(bar)
           /\ bar.vertical
                => /\ bar.fill[4] = Px(bar.y + bar.h)
                   /\ bar.fill[1] = Px(bar.x) /\ bar.fill[3] = Px(bar.x + bar.w)
           /\ ~bar.vertical
                => /\ bar.fill[1] = Px(bar.x)
                   /\ bar.fill[2] = Px(bar.y) /\ bar.fill[4] = Px(bar.y + bar.h)

\* A vertical bar of height 100 drawn for the progress 0 is filled over the
\* lowest pixel.
C19_Witness ==
    /\ bar.vertical /\ bar.progress = 0 /\ bar.h = 100 /\ bar.y = 10
    /\ bar.fill[2] = Px(109) /\ bar.fill[4] = Px(110)

\* C20: when the reply to Player.GetProperties has no result or no
\* percentage, the pass goes on with prog = -1; audio_screens then draws no
\* progress bar and, unless the artwork resolution raises, draws the frame,
\* which the pass emits; and no progress_bar call ever gets -1 as progress.
C20_UnknownProgressDrawsNoBar ==
    [][/\ \A t \in Threads :
            /\ (Leaves(t, "audio_prog") /\ prog_reply' = "absent")
                  => (pc'[t] = "audio_screens" /\ prog'[t] = NoProgress)
            /\ (Leaves(t, "audio_screens") /\ prog_reply = "absent")
                  => /\ bar' = NoBar
                     /\ pc'[t] \in {"display", "raised"}
                     /\ pc'[t] = "display" => image' = "audio"
            /\ (Leaves(t, "display") /\ prog_reply = "absent")
                  => shown' = "audio"
       /\ bar' # NoBar => bar'.progress # NoProgress]_vars

\* A pass whose layout has a progress bar got a reply without a percentage
\* and is about to emit the audio frame, with no bar drawn.
C20_Witness ==
    \E t \in Threads :
        /\ pc[t] = "display" /\ prog_reply = "absent" /\ prog[t] = NoProgress
        /\ HasProg(audio_dmode) /\ bar = NoBar /\ image = "audio"

\* C21 as stated: every press is consumed by exactly one render pass; when
\* the touch callback returns from the update_display call a press made,
\* normally or by an exception, one pass has consumed the press.
C21_PressConsumedExactlyOnce ==
    [][(Leaves("touch", "t_clear") \/ Leaves("touch", "raised"))
          => consumed = 1]_vars

\* C21, amended: a press is consumed by at most one render pass, whichever
\* thread runs it, so it advances the audio layout at most once or wakes
\* the idle screen at most once; a press whose pass raises may be consumed
\* by none.
C21_PressConsumedAtMostOnce == consumed <= 1

\* The polling loop has consumed, in an audio pass, the press of a touch
\* callback that is waiting for the lock.
C21_Witness ==
    /\ consumed = 1 /\ pass_press["main"] = "audio"
    /\ pc["touch"] = "acquire" /\ lock = "main" /\ ~screen_press


\* The draw.text calls of the last run of the loop for the value of the
\* field called name.
ValuesOf(name) ==
    SelectSeq(fields.draws, LAMBDA d : d.name = name /\ d.part = "value")

HasField(name) ==
    \E i \in 1..Len(fields.txt_field) : fields.txt_field[i].name = name

FieldOf(name) ==
    fields.txt_field[CHOOSE i \in 1..Len(fields.txt_field) :
                        fields.txt_field[i].name = name]

\* C22: the artist field draws one string, the artist name when it is not
\* empty and the composer between parentheses when the artist is empty and
\* the composer is not (as it is, or as truncate_text shortens it when the
\* field has "trunc"); when both are empty it draws nothing.
C22_ArtistField ==
    (fields # NoFields /\ HasField("artist")) =>
        LET d == ValuesOf("artist")
            artist == fields.info[Artist]
            composer == fields.info[Composer]
            f == FieldOf("artist")
            Draws(text) ==
                /\ Len(d) = 1
                /\ d[1].text = text
                /\ d[1].drawn = IF f.trunc
                                THEN truncate_text(f.xy, text, f.font,
                                                   fields.cache).drawn
                                ELSE text
        IN  /\ fields.exc = "none"
            /\ \A i \in 1..Len(fields.draws) :
                  fields.draws[i].name = "artist" => fields.draws[i].part = "value"
            /\ IF artist # <<>> THEN Draws(artist)
               ELSE IF composer # <<>> THEN Draws(<<"(">> \o composer \o <<")">>)
               ELSE d = <<>>

\* The artist is empty and the artist field drew the composer in parentheses.
C22_Witness ==
    /\ fields # NoFields
    /\ fields.info[Artist] = <<>>
    /\ ValuesOf("artist") # <<>>
    /\ ValuesOf("artist")[1].drawn = <<"(", "i", "W", ")">>


\* The draw.text calls of the last run of the loop for the field called name,
\* its label and its value.
DrawsOf(name) == SelectSeq(fields.draws, LAMBDA d : d.name = name)

\* txt_field without its field called name.
Without(txt_field, name) == SelectSeq(txt_field, LAMBDA f : f.name # name)

\* C23: for a codec id of codec_name the codec field draws its label, when it
\* has one, and then the display label of the table (FLAC for flac); for any
\* other id it draws nothing, neither label nor value, no error is raised
\* and the other fields are drawn as a layout without codec field draws them.
C23_CodecField ==
    (fields # NoFields /\ HasField("codec")) =>
        LET id == fields.info[Codec]
            f == FieldOf("codec")
            d == DrawsOf("codec")
        IN  /\ fields.exc = "none"
            /\ id \in DOMAIN codec_name =>
                  /\ ValuesOf("codec") = <<d[Len(d)]>>
                  /\ d[Len(d)].drawn = codec_name[id]
                  /\ id = "flac" => d[Len(d)].drawn = <<"F", "L", "A", "C">>
                  /\ Len(d) = IF f.haslabel THEN 2 ELSE 1
                  /\ f.haslabel => d[1].part = "label" /\ d[1].drawn = f.label
            /\ id \notin DOMAIN codec_name =>
                  /\ d = <<>>
                  /\ fields.draws
                       = text_fields(Without(fields.txt_field, "codec"), 1,
                                     fields.info, fields.cache, <<>>).draws
                  /\ ValuesOf(Title) # <<>>

\* The codec id is not in the table: the labelled codec field drew nothing
\* and the fields after it were drawn.
C23_Witness ==
    /\ fields # NoFields
    /\ fields.info[Codec] = "opus"
    /\ fields.txt_field[1].name = "codec" /\ fields.txt_field[1].haslabel
    /\ DrawsOf("codec") = <<>>
    /\ ValuesOf("artist") # <<>> /\ ValuesOf(Title) # <<>>


\* C24: when get_artwork returns the image it was given, without a fetch and
\* without opening a file, that image was made from the cover locator of the
\* pass, or is a default image.
C24_CachedImageIsOfCurrentCover ==
    [][\A t \in Threads :
          (Leaves(t, "audio_screens") /\ HasThumb(audio_dmode)
             /\ pc'[t] = "display" /\ ~art_log'.fetch /\ ~art_log'.open
             /\ _last_thumb' # NoImage)
             => _last_thumb'.src \in {track_info[t]} \cup DefaultImages]_vars


\* C25: every truncate_text call draws the string that a call with the same
\* text, font and position draws when the cache is empty.
C25_CacheHitDrawsFreshResult ==
    call # NoCall
        => call.drawn = truncate_text(call.xy, call.text, call.font, <<>>).drawn


InactivePress == pc["touch"] # "t_idle" /\ ~tpress

\* C27, its first part: the callback of a press that arrived while
\* kodi_active was false does not call update_display.
C27_InactivePressTriggersNoPass ==
    ~(InactivePress /\ pc["touch"] = "acquire")


\* C28: audio_dmode changes only in the step of a render pass that consumes a
\* press while audio plays; from the step that consumes a press while nothing
\* or no audio plays to the end of its pass audio_dmode keeps its value; from
\* the step that consumes a press while audio plays to the end of its pass
\* screen_active and screen_offtime keep theirs.
C28_PressFrame ==
    [][/\ audio_dmode' # audio_dmode
            => \E t \in Threads :
                  /\ Leaves(t, "audio_mode") /\ response[t] = "audio"
                  /\ pass_press'[t] = "audio" /\ ~screen_press'
       /\ \A t \in Threads :
             (InRender(t) /\ pc'[t] # pc[t]
                /\ (pass_press[t] = "idle" \/ pass_press'[t] = "idle"))
                => audio_dmode' = audio_dmode
       /\ \A t \in Threads :
             (InRender(t) /\ pc'[t] # pc[t]
                /\ (pass_press[t] = "audio" \/ pass_press'[t] = "audio"))
                => /\ screen_active' = screen_active
                   /\ screen_offtime' = screen_offtime]_vars

\* An audio pass has consumed a press and changed the layout while the status
\* screen was still awake, its wake time not yet reached.
C28_Witness ==
    \E t \in Threads :
        /\ pc[t] = "display" /\ pass_press[t] = "audio"
        /\ screen_active /\ screen_offtime > now
        /\ audio_dmode # MainLayouts[1]

=============================================================================
